---- MODULE Spec2Model ----
(***************************************************************************)
(* Location-to-feature estimation and risk calibration of                  *)
(* multi_disaster/app_location.py: the geographic classifiers              *)
(* (is_coastal_location, get_forest_coverage, the seismic-zone cascade of  *)
(* estimate_earthquake_risk_from_location), predict_all_disasters and      *)
(* predict_future_for_location.                                            *)
(*                                                                         *)
(* Units.  Coordinates are integers in 1/10000 of a degree.  Probabilities *)
(* are integers in 1/One, so that every product with a two-decimal factor  *)
(* (0.05, 0.1, 0.15, 0.3, 0.5, 0.6, 0.8) of a grid probability is exact.   *)
(* Magnitudes are integers in 1/(2*JitterDen), so 0.5 is JitterDen units.  *)
(* np.random.uniform(a, b) draws from [a, b): the grid of a jitter keeps   *)
(* the lower end point and leaves the upper one out.                       *)
(*                                                                         *)
(* State.  lat, lon, models, clf and today are the inputs of a call; op is *)
(* the function that ran last, and days, is_coastal, forest_level,         *)
(* seismic_intensity, zone, results and future_predictions are its         *)
(* argument, locals and return value.  rng is the state of the global      *)
(* NumPy generator; dtype_features, params and X are the operands and the  *)
(* value of the input-array expression.  month is the month argument of    *)
(* the flood, cyclone and fire synthesizers, which return params.          *)
(***************************************************************************)
(* Specifications.  Spec: the two prediction functions, with every random  *)
(* draw an arbitrary value of its range (the generator is not tracked).    *)
(* SpecGeo: get_location_context over a grid that has a point in every     *)
(* cell the bounding boxes cut the plane into.  SpecDates: the forecast    *)
(* from several values of today.  SpecRng: the two functions with the      *)
(* draws taken from the tracked generator.  SpecVector: the input-array    *)
(* expression on small schemas and mappings.  SpecSeason: the flood,       *)
(* cyclone and fire synthesizers on every month argument.                  *)
(***************************************************************************)
EXTENDS Integers, Sequences, FiniteSets, TLC

VARIABLES lat, lon, models, clf, today, month, rng, op, days, is_coastal,
          forest_level, seismic_intensity, zone, results, future_predictions,
          dtype_features, params, X

vars == <<lat, lon, models, clf, today, month, rng, op, days, is_coastal,
          forest_level, seismic_intensity, zone, results, future_predictions,
          dtype_features, params, X>>

\* ------------------------------------------------------------------ bounds

\* the classifiers of flood, cyclone and fire return k/ProbSteps, k in 0..ProbSteps
ProbSteps == 2

\* the earthquake classifier returns k/EqProbSteps (five bands need a finer grid)
EqProbSteps == 10

\* grid points per 0.5 of magnitude jitter
JitterDen == 1

\* largest value of the days argument of predict_future_for_location
MaxDays == 2

\* ------------------------------------------------------------- arithmetic

Hazards == {"flood", "cyclone", "fire", "earthquake"}

One == 10000 * ProbSteps * EqProbSteps

\* n hundredths as a probability: Pc(15) is 0.15
Pc(n) == n * (One \div 100)

\* p * (n/100)
Times(p, n) == (p * n) \div 100

Min(a, b) == IF a <= b THEN a ELSE b

Max(a, b) == IF a >= b THEN a ELSE b

\* h halves as a magnitude: Mag(11) is 5.5, Mag(10) is 5.0
Mag(h) == h * JitterDen

\* Between with the lower bound included
Between_Closed(x, lo10, hi10) == lo10 * 1000 <= x /\ x < hi10 * 1000

\* lo10 < x < hi10 with the bounds given in tenths of a degree
Between(x, lo10, hi10) == lo10 * 1000 < x /\ x < hi10 * 1000

\* the test (a < lat < b and c < lon < d) of the bounding-box rules
Box(la, lo, a, b, c, d) == Between(la, a, b) /\ Between(lo, c, d)

\* ---------------------------------------------------------- GeoClassifier

is_coastal_location(la, lo) ==
    IF Box(la, lo, 200, 300, 750, 820) THEN FALSE
    ELSE IF Box(la, lo, 210, 240, 720, 750) THEN FALSE
    ELSE IF Box(la, lo, 230, 270, 820, 870) THEN FALSE
    ELSE IF Box(la, lo, 300, 450, -1050, -850) THEN FALSE
    ELSE IF Box(la, lo, 450, 550, 100, 300) THEN FALSE
    ELSE IF Box(la, lo, 480, 530, 130, 150) THEN FALSE
    ELSE IF Box(la, lo, 350, 500, 500, 900) THEN FALSE
    ELSE IF Box(la, lo, -300, -150, -580, -470) THEN FALSE
    ELSE IF Box(la, lo, -20, 20, 280, 320) THEN FALSE
    ELSE IF Box(la, lo, 300, 420, 1080, 1180) THEN FALSE
    ELSE TRUE

urban_zones ==
    { <<405, 410, -745, -735>>,
      <<513, 517, -3, 2>>,
      <<487, 490, 22, 25>>,
      <<355, 358, 1395, 1399>>,
      <<398, 400, 1162, 1166>> }

\* get_forest_coverage without the loop over urban_zones
get_forest_coverage_NoUrban(la, lo) ==
    IF Box(la, lo, 280, 290, 765, 775) THEN 0
    ELSE IF Box(la, lo, 150, 350, 350, 600) THEN 0
    ELSE IF Box(la, lo, 150, 350, -150, 350) THEN 0
    ELSE IF Box(la, lo, -300, -200, 1300, 1450) THEN 0
    ELSE IF Box(la, lo, -100, 50, -750, -500) THEN 3
    ELSE IF Box(la, lo, -50, 50, 150, 300) THEN 3
    ELSE IF Box(la, lo, -100, 100, 950, 1200) THEN 3
    ELSE IF Box(la, lo, 450, 600, -1300, -1150) THEN 3
    ELSE IF Box(la, lo, 450, 600, -800, -700) THEN 3
    ELSE IF Box(la, lo, 500, 700, 600, 1400) THEN 3
    ELSE IF Box(la, lo, 80, 160, 730, 780) THEN 2
    ELSE IF Box(la, lo, 350, 420, -1250, -1150) THEN 2
    ELSE IF Box(la, lo, 450, 550, 50, 200) THEN 2
    ELSE 1

get_forest_coverage(la, lo) ==
    IF Box(la, lo, 280, 290, 765, 775) THEN 0
    ELSE IF Box(la, lo, 150, 350, 350, 600) THEN 0
    ELSE IF Box(la, lo, 150, 350, -150, 350) THEN 0
    ELSE IF Box(la, lo, -300, -200, 1300, 1450) THEN 0
    ELSE IF \E z \in urban_zones : Box(la, lo, z[1], z[2], z[3], z[4]) THEN 0
    ELSE IF Box(la, lo, -100, 50, -750, -500) THEN 3
    ELSE IF Box(la, lo, -50, 50, 150, 300) THEN 3
    ELSE IF Box(la, lo, -100, 100, 950, 1200) THEN 3
    ELSE IF Box(la, lo, 450, 600, -1300, -1150) THEN 3
    ELSE IF Box(la, lo, 450, 600, -800, -700) THEN 3
    ELSE IF Box(la, lo, 500, 700, 600, 1400) THEN 3
    ELSE IF Box(la, lo, 80, 160, 730, 780) THEN 2
    ELSE IF Box(la, lo, 350, 420, -1250, -1150) THEN 2
    ELSE IF Box(la, lo, 450, 550, 50, 200) THEN 2
    ELSE 1

Zone(t, n) == [seismic_intensity |-> t, zone_name |-> n]

\* the cascade with the Eastern Himalayan Belt rule written first
seismic_zone_BeltFirst(la, lo) ==
    IF Box(la, lo, 250, 320, 820, 950) THEN Zone(2, "Eastern Himalayan Belt")
    ELSE IF Box(la, lo, 265, 285, 840, 870) THEN Zone(4, "Nepal Himalayan Collision Zone")
    ELSE IF Box(la, lo, 340, 420, 1380, 1430) THEN Zone(4, "Japan Subduction Zone")
    ELSE IF Box(la, lo, 330, 385, -1230, -1170) THEN Zone(4, "San Andreas Fault System")
    ELSE IF Box(la, lo, -60, 60, 950, 1070) THEN Zone(4, "Sunda Megathrust")
    ELSE IF Box(la, lo, -430, -400, 1720, 1750) THEN Zone(4, "New Zealand Alpine Fault")
    ELSE IF Box(la, lo, -380, -330, -730, -700) THEN Zone(4, "Chilean Subduction Zone")
    ELSE IF Box(la, lo, 140, 160, 1200, 1220) THEN Zone(4, "Philippine Fault Zone")
    ELSE IF Box(la, lo, 280, 350, 730, 810) THEN Zone(3, "Kashmir Seismic Zone")
    ELSE IF Box(la, lo, 380, 420, 260, 450) THEN Zone(3, "North Anatolian Fault")
    ELSE IF Box(la, lo, 280, 380, 480, 620) THEN Zone(3, "Iranian Plateau Faults")
    ELSE IF Box(la, lo, 360, 410, 200, 280) THEN Zone(3, "Hellenic Arc")
    ELSE IF Box(la, lo, 600, 650, -1520, -1470) THEN Zone(3, "Alaska Subduction Zone")
    ELSE IF Box(la, lo, 180, 200, -1000, -980) THEN Zone(3, "Mexican Volcanic Belt")
    ELSE IF Box(la, lo, 470, 500, -1250, -1220) THEN Zone(3, "Cascadia Subduction Zone")
    ELSE IF Box(la, lo, 400, 430, 120, 160) THEN Zone(2, "Apennines Fault")
    ELSE IF Box(la, lo, 220, 250, 1200, 1220) THEN Zone(2, "Taiwan Collision Zone")
    ELSE IF Box(la, lo, 100, 150, -920, -850) THEN Zone(2, "Central American Arc")
    ELSE IF Box(la, lo, 350, 420, -800, -700) THEN Zone(1, "Eastern US Intraplate")
    ELSE IF Box(la, lo, 480, 520, 100, 160) THEN Zone(1, "Central European Platform")
    ELSE IF Box(la, lo, -350, -330, 1500, 1520) THEN Zone(1, "Sydney Basin")
    ELSE Zone(0, "Stable Craton")

\* the if/elif cascade that sets seismic_intensity and zone_name
seismic_zone(la, lo) ==
    IF Box(la, lo, 265, 285, 840, 870) THEN Zone(4, "Nepal Himalayan Collision Zone")
    ELSE IF Box(la, lo, 340, 420, 1380, 1430) THEN Zone(4, "Japan Subduction Zone")
    ELSE IF Box(la, lo, 330, 385, -1230, -1170) THEN Zone(4, "San Andreas Fault System")
    ELSE IF Box(la, lo, -60, 60, 950, 1070) THEN Zone(4, "Sunda Megathrust")
    ELSE IF Box(la, lo, -430, -400, 1720, 1750) THEN Zone(4, "New Zealand Alpine Fault")
    ELSE IF Box(la, lo, -380, -330, -730, -700) THEN Zone(4, "Chilean Subduction Zone")
    ELSE IF Box(la, lo, 140, 160, 1200, 1220) THEN Zone(4, "Philippine Fault Zone")
    ELSE IF Box(la, lo, 280, 350, 730, 810) THEN Zone(3, "Kashmir Seismic Zone")
    ELSE IF Box(la, lo, 380, 420, 260, 450) THEN Zone(3, "North Anatolian Fault")
    ELSE IF Box(la, lo, 280, 380, 480, 620) THEN Zone(3, "Iranian Plateau Faults")
    ELSE IF Box(la, lo, 360, 410, 200, 280) THEN Zone(3, "Hellenic Arc")
    ELSE IF Box(la, lo, 600, 650, -1520, -1470) THEN Zone(3, "Alaska Subduction Zone")
    ELSE IF Box(la, lo, 180, 200, -1000, -980) THEN Zone(3, "Mexican Volcanic Belt")
    ELSE IF Box(la, lo, 470, 500, -1250, -1220) THEN Zone(3, "Cascadia Subduction Zone")
    ELSE IF Box(la, lo, 250, 320, 820, 950) THEN Zone(2, "Eastern Himalayan Belt")
    ELSE IF Box(la, lo, 400, 430, 120, 160) THEN Zone(2, "Apennines Fault")
    ELSE IF Box(la, lo, 220, 250, 1200, 1220) THEN Zone(2, "Taiwan Collision Zone")
    ELSE IF Box(la, lo, 100, 150, -920, -850) THEN Zone(2, "Central American Arc")
    ELSE IF Box(la, lo, 350, 420, -800, -700) THEN Zone(1, "Eastern US Intraplate")
    ELSE IF Box(la, lo, 480, 520, 100, 160) THEN Zone(1, "Central European Platform")
    ELSE IF Box(la, lo, -350, -330, 1500, 1520) THEN Zone(1, "Sydney Basin")
    ELSE Zone(0, "Stable Craton")

base_mag(t) ==
    IF t = 4 THEN Mag(11)
    ELSE IF t = 3 THEN Mag(9)
    ELSE IF t = 2 THEN Mag(7)
    ELSE IF t = 1 THEN Mag(5)
    ELSE Mag(3)

\* mag_variation with the upper end of the range included
mag_variation_Closed(t) ==
    IF t >= 3 THEN (0 - Mag(1)) .. Mag(3)
    ELSE (0 - Mag(1)) .. Mag(1)

\* the values of np.random.uniform(-0.5, 1.5) and np.random.uniform(-0.5, 0.5)
mag_variation(t) ==
    IF t >= 3 THEN (0 - Mag(1)) .. (Mag(3) - 1)
    ELSE (0 - Mag(1)) .. (Mag(1) - 1)

\* the values features['mag'] of one call can take
estimate_earthquake_risk_from_location(la, lo) ==
    LET t == seismic_zone(la, lo).seismic_intensity
    IN  { base_mag(t) + v : v \in mag_variation(t) }

\* ------------------------------------------------------ ClassifierAdapter

\* The loaded classifier of a hazard is read-only during a call.  It is
\* modelled by what its calls give: they raise (fails), or predict_proba
\* gives [1 - proba, proba] and predict gives the class of larger probability.
Grid(n) == { k * (One \div n) : k \in 0..n }

RawProbs(h) == IF h = "earthquake" THEN Grid(EqProbSteps) ELSE Grid(ProbSteps)

Classifiers(h) ==
    [fails : {TRUE}, proba : {0}] \cup [fails : {FALSE}, proba : RawProbs(h)]

\* the classifiers tried when several hazards are loaded together
CoarseClassifiers ==
    [fails : {TRUE}, proba : {0}] \cup [fails : {FALSE}, proba : {One}]

\* the classifier dictionaries tried for the loaded set M: the full grid of a
\* hazard loaded alone, the coarse one when hazards are loaded together
LoadedClassifiers(M) ==
    IF Cardinality(M) <= 1
    THEN { f \in [M -> UNION { Classifiers(h) : h \in M }] :
             \A h \in M : f[h] \in Classifiers(h) }
    ELSE [M -> CoarseClassifiers]

\* models[h].predict(X)[0]
predict(c) == IF 2 * c.proba > One THEN 1 ELSE 0

\* models[h].predict_proba(X)[0][1]
predict_proba(c) == c.proba

\* ----------------------------------------- predict_all_disasters, pieces

\* the if/elif chain on eq_test['mag']
PadSeismicIntensity(mag) ==
    IF mag > Mag(10) THEN 4
    ELSE IF mag > Mag(8) THEN 3
    ELSE IF mag > Mag(6) THEN 2
    ELSE IF mag > Mag(4) THEN 1
    ELSE 0

\* PadCyclone with the coastal test inverted
PadCyclone_Inverted(prob, coastal) ==
    IF coastal THEN Min(Times(prob, 10), Pc(15)) ELSE prob

\* PadCyclone with the cap at 0.05
PadCyclone_Cap5(prob, coastal) ==
    IF ~coastal THEN Min(Times(prob, 10), Pc(5)) ELSE prob

PadCyclone(prob, coastal) ==
    IF ~coastal THEN Min(Times(prob, 10), Pc(15)) ELSE prob

\* PadFire with the second test written forest_level <= 2
PadFire_Tier2Reduced(prob, forest) ==
    IF forest = 0 THEN Min(Times(prob, 15), Pc(20))
    ELSE IF forest <= 2 THEN Times(prob, 60)
    ELSE prob

PadFire(prob, forest) ==
    IF forest = 0 THEN Min(Times(prob, 15), Pc(20))
    ELSE IF forest = 1 THEN Times(prob, 60)
    ELSE prob

\* PadEarthquake with the range clamp applied before the scale at tiers 2, 3
PadEarthquake_ClampFirst(prob, si) ==
    IF si = 0 THEN Min(Times(prob, 5), Pc(10))
    ELSE IF si = 1 THEN Min(Times(prob, 30), Pc(25))
    ELSE IF si = 2 THEN Times(Min(Max(prob, Pc(25)), Pc(50)), 50)
    ELSE IF si = 3 THEN Times(Min(Max(prob, Pc(50)), Pc(75)), 80)
    ELSE Min(Max(prob, Pc(70)), Pc(95))

\* PadEarthquake with neither scale nor ceiling at tier 2
PadEarthquake_Tier2Raw(prob, si) ==
    IF si = 0 THEN Min(Times(prob, 5), Pc(10))
    ELSE IF si = 1 THEN Min(Times(prob, 30), Pc(25))
    ELSE IF si = 2 THEN Max(prob, Pc(25))
    ELSE IF si = 3 THEN Min(Max(Times(prob, 80), Pc(50)), Pc(75))
    ELSE Min(Max(prob, Pc(70)), Pc(95))

PadEarthquake(prob, si) ==
    IF si = 0 THEN Min(Times(prob, 5), Pc(10))
    ELSE IF si = 1 THEN Min(Times(prob, 30), Pc(25))
    ELSE IF si = 2 THEN Min(Max(Times(prob, 50), Pc(25)), Pc(50))
    ELSE IF si = 3 THEN Min(Max(Times(prob, 80), Pc(50)), Pc(75))
    ELSE Min(Max(prob, Pc(70)), Pc(95))

\* PadFallback with the table written in percent
PadFallback_Percent(si) ==
    CASE si = 0 -> Pc(500)
      [] si = 1 -> Pc(2000)
      [] si = 2 -> Pc(4000)
      [] si = 3 -> Pc(6500)
      [] si = 4 -> Pc(8500)
      [] OTHER -> Pc(30)

\* fallback_prob.get(seismic_intensity, 0.3)
PadFallback(si) ==
    CASE si = 0 -> Pc(5)
      [] si = 1 -> Pc(20)
      [] si = 2 -> Pc(40)
      [] si = 3 -> Pc(65)
      [] si = 4 -> Pc(85)
      [] OTHER -> Pc(30)

\* the probability after the try block of hazard h
PadCalibrate(h, prob, coastal, forest, si) ==
    IF h = "cyclone" THEN PadCyclone(prob, coastal)
    ELSE IF h = "fire" THEN PadFire(prob, forest)
    ELSE IF h = "earthquake" THEN PadEarthquake(prob, si)
    ELSE prob

\* PadEntry that reports the class of the calibrated probability
PadEntry_Reclassified(h, c, coastal, forest, si, p) ==
    IF c.fails
    THEN [prediction |-> 0,
          probability |-> IF h = "earthquake" THEN PadFallback(si) ELSE Pc(30),
          params |-> p]
    ELSE [prediction |->
              IF 2 * PadCalibrate(h, predict_proba(c), coastal, forest, si)
                     > One
              THEN 1 ELSE 0,
          probability |-> PadCalibrate(h, predict_proba(c), coastal, forest, si),
          params |-> p]

\* results[h]; p is the mapping the synthesizer of h returned
PadEntry(h, c, coastal, forest, si, p) ==
    IF c.fails
    THEN [prediction |-> 0,
          probability |-> IF h = "earthquake" THEN PadFallback(si) ELSE Pc(30),
          params |-> p]
    ELSE [prediction |-> predict(c),
          probability |-> PadCalibrate(h, predict_proba(c), coastal, forest, si),
          params |-> p]

\* ----------------------------------- predict_future_for_location, pieces

\* the if/elif chain on eq_test['mag'] (seismic_intensity starts at 0)
FutSeismicIntensity(mag) ==
    IF mag > Mag(10) THEN 4
    ELSE IF mag > Mag(8) THEN 3
    ELSE IF mag > Mag(6) THEN 2
    ELSE IF mag > Mag(4) THEN 1
    ELSE 0

\* FutCyclone with the factor 0.2
FutCyclone_Scale20(prob, coastal) ==
    IF ~coastal THEN Min(Times(prob, 20), Pc(15)) ELSE prob

FutCyclone(prob, coastal) ==
    IF ~coastal THEN Min(Times(prob, 10), Pc(15)) ELSE prob

\* FutFire without the forest tier 1 branch
FutFire_NoTier1(prob, forest) ==
    IF forest = 0 THEN Min(Times(prob, 15), Pc(20))
    ELSE prob

FutFire(prob, forest) ==
    IF forest = 0 THEN Min(Times(prob, 15), Pc(20))
    ELSE IF forest = 1 THEN Times(prob, 60)
    ELSE prob

\* FutEarthquake without the floor of tier 4
FutEarthquake_NoFloor(prob, si) ==
    IF si = 0 THEN Min(Times(prob, 5), Pc(10))
    ELSE IF si = 1 THEN Min(Times(prob, 30), Pc(25))
    ELSE IF si = 2 THEN Min(Max(Times(prob, 50), Pc(25)), Pc(50))
    ELSE IF si = 3 THEN Min(Max(Times(prob, 80), Pc(50)), Pc(75))
    ELSE Min(prob, Pc(95))

FutEarthquake(prob, si) ==
    IF si = 0 THEN Min(Times(prob, 5), Pc(10))
    ELSE IF si = 1 THEN Min(Times(prob, 30), Pc(25))
    ELSE IF si = 2 THEN Min(Max(Times(prob, 50), Pc(25)), Pc(50))
    ELSE IF si = 3 THEN Min(Max(Times(prob, 80), Pc(50)), Pc(75))
    ELSE Min(Max(prob, Pc(70)), Pc(95))

\* FutFallback without the table
FutFallback_Flat(si) == Pc(30)

\* fallback.get(seismic_intensity, 0.3)
FutFallback(si) ==
    CASE si = 0 -> Pc(5)
      [] si = 1 -> Pc(20)
      [] si = 2 -> Pc(40)
      [] si = 3 -> Pc(65)
      [] si = 4 -> Pc(85)
      [] OTHER -> Pc(30)

\* day_risks[dtype] of a loaded classifier
DayRisk(h, c, coastal, forest, si) ==
    IF c.fails
    THEN IF h = "earthquake" THEN FutFallback(si) ELSE Pc(30)
    ELSE IF h = "cyclone" THEN FutCyclone(predict_proba(c), coastal)
    ELSE IF h = "fire" THEN FutFire(predict_proba(c), forest)
    ELSE IF h = "earthquake" THEN FutEarthquake(predict_proba(c), si)
    ELSE predict_proba(c)

MaxOf(S) == CHOOSE m \in S : \A x \in S : x <= m

\* day_risks after the loop over the four hazard types
day_risks(loaded, c, coastal, forest, si) ==
    [h \in loaded |-> DayRisk(h, c[h], coastal, forest, si)]

\* day_risks.get(h, 0)
risk_get(dr, h) == IF h \in DOMAIN dr THEN dr[h] ELSE 0

\* max(day_risks.values()) if day_risks else 0.3
max_risk(dr) ==
    IF DOMAIN dr # {} THEN MaxOf({ dr[h] : h \in DOMAIN dr }) ELSE Pc(30)

\* risk_level with the thresholds included
risk_level_Closed(m) ==
    IF m >= Pc(60) THEN "High" ELSE IF m >= Pc(30) THEN "Medium" ELSE "Low"

\* 'High' if max_risk > 0.6 else 'Medium' if max_risk > 0.3 else 'Low'
risk_level(m) ==
    IF m > Pc(60) THEN "High" ELSE IF m > Pc(30) THEN "Medium" ELSE "Low"

\* the record appended for one day; risks are probabilities times 100
ForecastRow(date, dr) ==
    [date |-> date,
     flood_risk |-> risk_get(dr, "flood") * 100,
     cyclone_risk |-> risk_get(dr, "cyclone") * 100,
     fire_risk |-> risk_get(dr, "fire") * 100,
     earthquake_risk |-> risk_get(dr, "earthquake") * 100,
     max_risk |-> max_risk(dr) * 100,
     risk_level |-> risk_level(max_risk(dr))]

\* ------------------------------------------------------------------ dates

\* a date is <<year, month, day>>; '%Y-%m-%d' writes exactly these three
Leap(y) == y % 4 = 0 /\ (y % 100 # 0 \/ y % 400 = 0)

DaysIn(y, m) ==
    IF m = 2 THEN (IF Leap(y) THEN 29 ELSE 28)
    ELSE IF m \in {4, 6, 9, 11} THEN 30 ELSE 31

NextDay(d) ==
    IF d[3] < DaysIn(d[1], d[2]) THEN <<d[1], d[2], d[3] + 1>>
    ELSE IF d[2] < 12 THEN <<d[1], d[2] + 1, 1>>
    ELSE <<d[1] + 1, 1, 1>>

RECURSIVE AddDays(_, _)
\* d + timedelta(days=n), n >= 0
AddDays(d, n) == IF n <= 0 THEN d ELSE AddDays(NextDay(d), n - 1)

\* future_date counted from today
future_date_FromToday(t, i) == AddDays(t, i - 1)

\* today + timedelta(days=i)
future_date(t, i) == AddDays(t, i)

\* ------------------------------------------------------ random generator

\* the generator gives u/UDen, u in 0..UDen-1, for random_sample()
UDen == 4 * JitterDen

\* np.random.uniform(lo, hi) when random_sample() gives u/UDen
uniform(lo, hi, u) == lo + ((hi - lo) * u) \div UDen

\* mag_variation when random_sample() gives u/UDen
mag_variation_at(t, u) ==
    IF t >= 3 THEN uniform(0 - Mag(1), Mag(3), u)
    ELSE uniform(0 - Mag(1), Mag(1), u)

\* features['mag'] when random_sample() gives u/UDen
mag_at(la, lo, u) ==
    LET t == seismic_zone(la, lo).seismic_intensity
    IN  base_mag(t) + mag_variation_at(t, u)

\* period of the tracked generator
RngPeriod == 3

\* a tracked generator: the samples it gives in turn, and how many it gave
Generators == [tape : [0 .. RngPeriod - 1 -> 0 .. UDen - 1], pos : {0}]

\* the generator is not tracked
NoRng == [tape |-> << >>, pos |-> 0]

\* the sample generator g gives after k others
Sample(g, k) == g.tape[(g.pos + k) % RngPeriod]

\* the generator after n samples
Advance(g, n) ==
    IF g = NoRng THEN g ELSE [g EXCEPT !.pos = (g.pos + n) % RngPeriod]

\* ----------------------------------------------------------- input array

\* the array built from the names of the mapping that the schema holds
input_array_PresentOnly(p, fs) ==
    LET present == SelectSeq(fs, LAMBDA f : f \in DOMAIN p)
    IN  [i \in 1 .. Len(present) |-> p[present[i]]]

\* np.array([[params.get(f, 0) for f in dtype_features]])
input_array(p, fs) ==
    [i \in 1 .. Len(fs) |-> IF fs[i] \in DOMAIN p THEN p[fs[i]] ELSE 0]

NoParams == [f \in {} |-> 0]

\* ------------------------------------------- the seasonal synthesizers
\* Of each returned mapping the entries are kept that depend on the month
\* or the coordinate; the entries that are one np.random draw each are not.

Abs(x) == IF x < 0 THEN 0 - x ELSE x

\* monsoon_intensity with the Indian monsoon test left open above
monsoon_intensity_OpenSeason(la, lo, m) ==
    IF Box(la, lo, 80, 350, 680, 970)
    THEN (IF m >= 6 THEN 9 ELSE IF m \in {10, 11} THEN 7 ELSE 4)
    ELSE IF Box(la, lo, -100, 250, 950, 1250)
    THEN (IF m \in {5, 6, 7, 8, 9} THEN 8 ELSE 5)
    ELSE IF Abs(la) < 250000
    THEN (IF m \in {6, 7, 8, 9} THEN 6 ELSE 4)
    ELSE 3

\* monsoon_intensity of estimate_flood_risk_from_location
monsoon_intensity(la, lo, m) ==
    IF Box(la, lo, 80, 350, 680, 970)
    THEN (IF m \in {6, 7, 8, 9} THEN 9 ELSE IF m \in {10, 11} THEN 7 ELSE 4)
    ELSE IF Box(la, lo, -100, 250, 950, 1250)
    THEN (IF m \in {5, 6, 7, 8, 9} THEN 8 ELSE 5)
    ELSE IF Abs(la) < 250000
    THEN (IF m \in {6, 7, 8, 9} THEN 6 ELSE 4)
    ELSE 3

\* min(10, max(3, int(abs(lat) / 10) + 5))
climate_change(la) == Min(10, Max(3, (Abs(la) \div 100000) + 5))

estimate_flood_risk_from_location(la, lo, m) ==
    [MonsoonIntensity |-> monsoon_intensity(la, lo, m),
     ClimateChange |-> climate_change(la),
     CoastalVulnerability |-> IF is_coastal_location(la, lo) THEN 8 ELSE 3]

\* values of np.random.uniform(995, 1008), in hPa
PressureDraws == {995, 1001, 1007}

\* the mappings one call can return; temperatures in tenths of a degree.
\* Sea_Surface_Temperature is base_temp plus a jitter at a coastal coordinate
estimate_cyclone_risk_from_location(la, lo, m) ==
    IF ~is_coastal_location(la, lo)
    THEN { [Sea_Surface_Temperature |-> 200, Atmospheric_Pressure |-> 1013,
            Proximity_to_Coastline |-> 9990] }
    ELSE LET cyclone_belt == 50000 <= Abs(la) /\ Abs(la) <= 300000
             season == m \in {5, 6, 7, 8, 9, 10}
             base_temp == IF Abs(la) < 200000 /\ cyclone_belt
                          THEN (IF season THEN 300 ELSE 285)
                          ELSE IF Abs(la) > 400000 THEN 220
                          ELSE 270
             pressures == IF cyclone_belt /\ season
                          THEN PressureDraws ELSE {1010}
         IN  { [base_temp |-> base_temp, Atmospheric_Pressure |-> p,
                Proximity_to_Coastline |-> 1] : p \in pressures }

\* base_temp of estimate_fire_risk_from_location before the seasons
latitude_temp(la) ==
    IF Abs(la) < 300000 THEN 27 ELSE IF Abs(la) > 500000 THEN 8 ELSE 18

\* temp is base_temp and RH is humidity, each plus a jitter
estimate_fire_risk_from_location(la, lo, m) ==
    IF get_forest_coverage(la, lo) = 0
    THEN [month_num |-> m]
    ELSE LET north_summer == la > 0 /\ m \in {5, 6, 7, 8}
             south_summer == la < 0 /\ m \in {11, 12, 1, 2}
             north_winter == la > 0 /\ m \in {12, 1, 2}
             south_winter == la < 0 /\ m \in {6, 7, 8}
             is_summer == north_summer \/ south_summer
             seasonal == IF is_summer THEN latitude_temp(la) + 10
                         ELSE IF north_winter \/ south_winter
                         THEN latitude_temp(la) - 10
                         ELSE latitude_temp(la)
             dry_region == \/ Box(la, lo, 300, 450, -1250, -1150)
                           \/ Box(la, lo, 350, 450, -100, 400)
         IN  [base_temp |-> IF dry_region /\ is_summer
                            THEN seasonal + 5 ELSE seasonal,
              is_summer |-> is_summer,
              humidity |-> IF dry_region /\ is_summer THEN 25
                           ELSE IF is_summer THEN 30 ELSE 60,
              month_num |-> m]

\* ------------------------------------------------------------------ state

\* (latitude, longitude) of the query
Kathmandu == <<277172, 853240>>

Delhi == <<286139, 772090>>

AmazonEdge == <<-100000, -600000>>

Coords ==
    { Kathmandu, Delhi, AmazonEdge,
      <<-50000, -600000>>,    \* Amazon: forest 3, coastal, stable
      <<0, 290000>>,          \* Central Africa: forest 3, inland, stable
      <<300000, 900000>>,     \* Eastern Himalayan Belt: tier 2, coastal
      <<260000, 830000>>,     \* Eastern Himalayan Belt: tier 2, inland
      <<500000, 120000>>,     \* Central Europe: tier 1, inland, forest 2
      <<356000, 1397000>>,    \* Tokyo: tier 4, coastal, forest 0
      <<268000, 850000>> }    \* Nepal: tier 4, inland

NoResults == [h \in {} |-> 0]

\* datetime.now() of the calls of Spec
MidYear == <<2025, 6, 15>>

\* no function has run: locals as the functions initialise them
Idle ==
    /\ op = "none"
    /\ days = 0
    /\ is_coastal = TRUE
    /\ forest_level = 0
    /\ seismic_intensity = 0
    /\ zone = Zone(0, "Stable Craton")
    /\ results = NoResults
    /\ future_predictions = << >>
    /\ X = << >>

\* the input-array expression is not under test
NoVector == dtype_features = << >> /\ params = NoParams

Init ==
    /\ \E c \in Coords : lat = c[1] /\ lon = c[2]
    /\ models \in SUBSET Hazards
    /\ clf \in LoadedClassifiers(models)
    /\ today = MidYear
    /\ month = today[2]
    /\ rng = NoRng
    /\ NoVector
    /\ Idle

\* what no function writes
Inputs == <<lat, lon, models, clf, today, month, dtype_features, params>>

\* the mapping that the synthesizer of h returns in predict_all_disasters,
\* month being datetime.now().month; of eq_params 'mag' is kept
PadParams(h, mag, cyclone) ==
    IF h = "flood" THEN estimate_flood_risk_from_location(lat, lon, today[2])
    ELSE IF h = "cyclone" THEN cyclone
    ELSE IF h = "fire" THEN estimate_fire_risk_from_location(lat, lon, today[2])
    ELSE [mag |-> mag]

\* features['mag'] of a call of estimate_earthquake_risk_from_location that
\* starts after k samples: the call draws depth, then mag_variation.  A
\* generator that is not tracked gives any value of the range.
MagDraw(k) ==
    IF rng = NoRng
    THEN estimate_earthquake_risk_from_location(lat, lon)
    ELSE { mag_at(lat, lon, Sample(rng, k + 1)) }

\* eq_test['mag'] in predict_all_disasters: of the draws that threshold to
\* the same tier one is kept, the tier being all that is read of eq_test
PadTestDraw ==
    { CHOOSE m \in MagDraw(0) : PadSeismicIntensity(m) = t :
        t \in { PadSeismicIntensity(m) : m \in MagDraw(0) } }

\* eq_test['mag'] in predict_future_for_location, likewise
FutTestDraw ==
    { CHOOSE m \in MagDraw(0) : FutSeismicIntensity(m) = t :
        t \in { FutSeismicIntensity(m) : m \in MagDraw(0) } }

\* the values eq_params['mag'] can have; the call is made only when the
\* earthquake classifier is loaded
EqParamsDraw == IF "earthquake" \in models THEN MagDraw(2) ELSE {0}

\* the mappings cyclone_params can be
CycloneDraw ==
    IF "cyclone" \in models
    THEN estimate_cyclone_risk_from_location(lat, lon, today[2])
    ELSE {NoParams}

\* predict_all_disasters when the mag_variation draws of its two calls of
\* estimate_earthquake_risk_from_location give eq_test['mag'] = test_mag and
\* eq_params['mag'] = mag, and cyclone_params is cyclone
PadCall(test_mag, mag, cyclone) ==
    LET si == PadSeismicIntensity(test_mag)
        coastal == is_coastal_location(lat, lon)
        forest == get_forest_coverage(lat, lon)
    IN  /\ op' = "predict_all_disasters"
        /\ days' = 0
        /\ seismic_intensity' = si
        /\ zone' = seismic_zone(lat, lon)
        /\ is_coastal' = coastal
        /\ forest_level' = forest
        /\ results' = [h \in models |->
                         PadEntry(h, clf[h], coastal, forest, si,
                                  PadParams(h, mag, cyclone))]
        /\ future_predictions' = << >>
        /\ X' = << >>
        /\ UNCHANGED Inputs

\* predict_future_for_location(days=d) when the draw of its eq_test call
\* gives eq_test['mag'] = test_mag
FutCall(d, test_mag) ==
    LET si == FutSeismicIntensity(test_mag)
        coastal == is_coastal_location(lat, lon)
        forest == get_forest_coverage(lat, lon)
    IN  /\ op' = "predict_future_for_location"
        /\ days' = d
        /\ seismic_intensity' = si
        /\ zone' = seismic_zone(lat, lon)
        /\ is_coastal' = coastal
        /\ forest_level' = forest
        /\ future_predictions' =
               [i \in 1 .. d |->
                  ForecastRow(future_date(today, i),
                              day_risks(models, clf, coastal, forest, si))]
        /\ results' = NoResults
        /\ X' = << >>
        /\ UNCHANGED Inputs

\* the values of the days argument
DaysArgs == (0 - 1) .. MaxDays

\* samples that n calls of the earthquake synthesizer after eq_test take
EqSamples(n) == 2 + (IF "earthquake" \in models /\ n > 0 THEN 2 * n ELSE 0)

\* one call: eq_test first, the earthquake block last
predict_all_disasters ==
    \E test_mag \in PadTestDraw, mag \in EqParamsDraw,
       cyclone \in CycloneDraw :
        /\ PadCall(test_mag, mag, cyclone)
        /\ rng' = Advance(rng, EqSamples(1))

\* one call with argument days: eq_test, then the loop over the days
predict_future_for_location ==
    \E d \in DaysArgs, test_mag \in FutTestDraw :
        /\ FutCall(d, test_mag)
        /\ rng' = Advance(rng, EqSamples(d))

Next == predict_all_disasters \/ predict_future_for_location

Spec == Init /\ [][Next]_vars

\* ------------------------------------------------- get_location_context

\* the tier of the label that context['seismic_zone'] gets
ContextSeismicZone(mag) ==
    IF mag > Mag(10) THEN 4
    ELSE IF mag > Mag(8) THEN 3
    ELSE IF mag > Mag(6) THEN 2
    ELSE IF mag > Mag(4) THEN 1
    ELSE 0

\* one call; seismic_intensity keeps the tier of the label
get_location_context ==
    \E mag \in estimate_earthquake_risk_from_location(lat, lon) :
        /\ op' = "get_location_context"
        /\ days' = 0
        /\ is_coastal' = is_coastal_location(lat, lon)
        /\ forest_level' = get_forest_coverage(lat, lon)
        /\ seismic_intensity' = ContextSeismicZone(mag)
        /\ zone' = seismic_zone(lat, lon)
        /\ results' = NoResults
        /\ future_predictions' = << >>
        /\ X' = << >>
        /\ UNCHANGED Inputs
        /\ rng' = Advance(rng, 2)

\* the boxes of is_coastal_location, in tenths of a degree
InlandBoxes ==
    { <<200, 300, 750, 820>>, <<210, 240, 720, 750>>, <<230, 270, 820, 870>>,
      <<300, 450, -1050, -850>>, <<450, 550, 100, 300>>, <<480, 530, 130, 150>>,
      <<350, 500, 500, 900>>, <<-300, -150, -580, -470>>, <<-20, 20, 280, 320>>,
      <<300, 420, 1080, 1180>> }

\* the urban and desert boxes of get_forest_coverage
UrbanDesertBoxes ==
    { <<280, 290, 765, 775>>, <<150, 350, 350, 600>>, <<150, 350, -150, 350>>,
      <<-300, -200, 1300, 1450>> } \cup urban_zones

\* its high-coverage boxes
HighCoverageBoxes ==
    { <<-100, 50, -750, -500>>, <<-50, 50, 150, 300>>, <<-100, 100, 950, 1200>>,
      <<450, 600, -1300, -1150>>, <<450, 600, -800, -700>>,
      <<500, 700, 600, 1400>> }

\* its moderate-coverage boxes
ModerateCoverageBoxes ==
    { <<80, 160, 730, 780>>, <<350, 420, -1250, -1150>>, <<450, 550, 50, 200>> }

\* the zone boxes of estimate_earthquake_risk_from_location in the order
\* they are written: <<box, tier, name>>
ZoneBoxes ==
    << <<<<265, 285, 840, 870>>, 4, "Nepal Himalayan Collision Zone">>,
       <<<<340, 420, 1380, 1430>>, 4, "Japan Subduction Zone">>,
       <<<<330, 385, -1230, -1170>>, 4, "San Andreas Fault System">>,
       <<<<-60, 60, 950, 1070>>, 4, "Sunda Megathrust">>,
       <<<<-430, -400, 1720, 1750>>, 4, "New Zealand Alpine Fault">>,
       <<<<-380, -330, -730, -700>>, 4, "Chilean Subduction Zone">>,
       <<<<140, 160, 1200, 1220>>, 4, "Philippine Fault Zone">>,
       <<<<280, 350, 730, 810>>, 3, "Kashmir Seismic Zone">>,
       <<<<380, 420, 260, 450>>, 3, "North Anatolian Fault">>,
       <<<<280, 380, 480, 620>>, 3, "Iranian Plateau Faults">>,
       <<<<360, 410, 200, 280>>, 3, "Hellenic Arc">>,
       <<<<600, 650, -1520, -1470>>, 3, "Alaska Subduction Zone">>,
       <<<<180, 200, -1000, -980>>, 3, "Mexican Volcanic Belt">>,
       <<<<470, 500, -1250, -1220>>, 3, "Cascadia Subduction Zone">>,
       <<<<250, 320, 820, 950>>, 2, "Eastern Himalayan Belt">>,
       <<<<400, 430, 120, 160>>, 2, "Apennines Fault">>,
       <<<<220, 250, 1200, 1220>>, 2, "Taiwan Collision Zone">>,
       <<<<100, 150, -920, -850>>, 2, "Central American Arc">>,
       <<<<350, 420, -800, -700>>, 1, "Eastern US Intraplate">>,
       <<<<480, 520, 100, 160>>, 1, "Central European Platform">>,
       <<<<-350, -330, 1500, 1520>>, 1, "Sydney Basin">> >>

AllBoxes ==
    InlandBoxes \cup UrbanDesertBoxes \cup HighCoverageBoxes
        \cup ModerateCoverageBoxes
        \cup { ZoneBoxes[i][1] : i \in 1 .. Len(ZoneBoxes) }

\* every bound in C, the middle of every two neighbouring bounds and a point
\* beyond each end: one point on every edge and one in every gap
GridOf(C) ==
    { c * 1000 : c \in C }
        \cup { (p[1] + p[2]) * 500 :
                   p \in { q \in C \X C :
                              /\ q[1] < q[2]
                              /\ ~ \E y \in C : q[1] < y /\ y < q[2] } }
        \cup { c * 1000 - 5000 : c \in { x \in C : \A y \in C : x <= y } }
        \cup { c * 1000 + 5000 : c \in { x \in C : \A y \in C : y <= x } }

LatGrid == GridOf({ b[1] : b \in AllBoxes } \cup { b[2] : b \in AllBoxes })

LonGrid == GridOf({ b[3] : b \in AllBoxes } \cup { b[4] : b \in AllBoxes })

InitGeo ==
    /\ lat \in LatGrid
    /\ lon \in LonGrid
    /\ models = {}
    /\ clf = NoResults
    /\ today = MidYear
    /\ month = today[2]
    /\ rng = NoRng
    /\ NoVector
    /\ Idle

NextGeo == get_location_context

SpecGeo == InitGeo /\ [][NextGeo]_vars

\* ----------------------------------------------------- the input array

MaxSchema == 3

\* names a schema can hold
FeatureNames == {"depth", "mag", "month"}

\* names a synthesized mapping can hold
ParamNames == FeatureNames \cup {"latitude"}

Schemas == UNION { [1 .. n -> FeatureNames] : n \in 0 .. MaxSchema }

ParamMaps == UNION { [D -> {1, 2}] : D \in SUBSET ParamNames }

\* X = np.array([[params.get(f, 0) for f in dtype_features]])
build_input_array ==
    /\ op' = "input_array"
    /\ X' = input_array(params, dtype_features)
    /\ UNCHANGED <<days, is_coastal, forest_level, seismic_intensity, zone,
                   results, future_predictions>>
    /\ UNCHANGED Inputs
    /\ UNCHANGED rng

InitVector ==
    /\ lat = Kathmandu[1]
    /\ lon = Kathmandu[2]
    /\ models = {}
    /\ clf = NoResults
    /\ today = MidYear
    /\ month = today[2]
    /\ rng = NoRng
    /\ dtype_features \in Schemas
    /\ params \in ParamMaps
    /\ Idle

NextVector == build_input_array

SpecVector == InitVector /\ [][NextVector]_vars

\* --------------------------------------------------- the forecast dates

\* values of datetime.now(): before the ends of months and years, in leap
\* years and in others
Todays ==
    { <<2024, 2, 28>>, <<2025, 2, 27>>, <<2000, 2, 28>>, <<2100, 2, 27>>,
      <<2024, 12, 30>>, <<2025, 4, 29>>, <<2025, 6, 15>>, <<2025, 1, 31>> }

InitDates ==
    /\ \E c \in Coords : lat = c[1] /\ lon = c[2]
    /\ models = {"flood"}
    /\ clf \in LoadedClassifiers(models)
    /\ today \in Todays
    /\ month = today[2]
    /\ rng = NoRng
    /\ NoVector
    /\ Idle

NextDates == predict_future_for_location

SpecDates == InitDates /\ [][NextDates]_vars

\* ------------------------------------------- calls on one np.random

\* a coordinate of a tier 4 zone and one of a tier 3 zone
RngCoords == {Kathmandu, Delhi}

\* the process-wide generator is tracked; only the earthquake synthesizer,
\* the one whose draws reach the results, is loaded
InitRng ==
    /\ \E c \in RngCoords : lat = c[1] /\ lon = c[2]
    /\ models \in SUBSET {"earthquake"}
    /\ clf \in [models -> CoarseClassifiers]
    /\ today = MidYear
    /\ month = today[2]
    /\ rng \in Generators
    /\ NoVector
    /\ Idle

NextRng == predict_all_disasters \/ predict_future_for_location

SpecRng == InitRng /\ [][NextRng]_vars

\* ------------------------------------------ calls of the synthesizers

\* what a call of a synthesizer leaves alone
Synthesized(name) ==
    /\ op' = name
    /\ UNCHANGED <<lat, lon, models, clf, today, month, dtype_features>>
    /\ UNCHANGED <<days, is_coastal, forest_level, seismic_intensity, zone,
                   results, future_predictions, X, rng>>

\* flood_params = estimate_flood_risk_from_location(lat, lon, month)
flood_params ==
    /\ params' = estimate_flood_risk_from_location(lat, lon, month)
    /\ Synthesized("estimate_flood_risk_from_location")

\* cyclone_params = estimate_cyclone_risk_from_location(lat, lon, month)
cyclone_params ==
    /\ params' \in estimate_cyclone_risk_from_location(lat, lon, month)
    /\ Synthesized("estimate_cyclone_risk_from_location")

\* fire_params = estimate_fire_risk_from_location(lat, lon, month)
fire_params ==
    /\ params' = estimate_fire_risk_from_location(lat, lon, month)
    /\ Synthesized("estimate_fire_risk_from_location")

SeasonCoords ==
    { Delhi,                   \* India box, inland
      <<190760, 728777>>,      \* Mumbai: India box, coastal, cyclone belt
      <<-62000, 1068000>>,     \* Jakarta: South-East Asia box, southern
      <<-50000, -600000>>,     \* Amazon: tropics, southern, forest 3
      <<0, 290000>>,           \* Central Africa: on the equator
      <<500000, 120000>>,      \* Central Europe: northern, temperate
      <<380000, -1200000>>,    \* California: northern, dry region
      <<400000, 200000>>,      \* Mediterranean: northern, dry region
      <<600000, 50000>>,       \* Norway: northern, cold
      <<-350000, 1500000>> }   \* New South Wales: southern, temperate

\* the values of the month argument
MonthArgs == 0 .. 13

InitSeason ==
    /\ \E c \in SeasonCoords : lat = c[1] /\ lon = c[2]
    /\ models = {}
    /\ clf = NoResults
    /\ today = MidYear
    /\ month \in MonthArgs
    /\ rng = NoRng
    /\ NoVector
    /\ Idle

NextSeason == flood_params \/ cyclone_params \/ fire_params

SpecSeason == InitSeason /\ [][NextSeason]_vars

\* ----------------------------------------------------------------- claims

PadDone == op = "predict_all_disasters"

FutDone == op = "predict_future_for_location"

\* the classifier of h is loaded and its calls return
Normal(h) == h \in models /\ ~clf[h].fails

\* the raw probability the classifier of h returns
Raw(h) == clf[h].proba

Days == 1 .. Len(future_predictions)

Inside(x, lo, hi) == lo <= x /\ x <= hi

\* C1: at an inland coordinate the cyclone probability that
\* predict_all_disasters reports, and the cyclone risk of every forecast day,
\* is at most 0.15, whatever probability the classifier returned.
C1_CycloneInlandCap ==
    (Normal("cyclone") /\ ~is_coastal_location(lat, lon)) =>
        /\ PadDone => results["cyclone"].probability <= Pc(15)
        /\ FutDone => \A i \in Days :
                          future_predictions[i].cyclone_risk <= Pc(15) * 100

C1_Witness ==
    /\ PadDone
    /\ Normal("cyclone")
    /\ ~is_coastal_location(lat, lon)
    /\ Raw("cyclone") = One
    /\ results["cyclone"].probability = Pc(10)

\* C2: when the seismic tier used for calibration is 4, the calibrated
\* earthquake probability is in [0.70, 0.95] for every raw probability, in
\* predict_all_disasters and on every forecast day.
C2_Tier4Band ==
    (Normal("earthquake") /\ seismic_intensity = 4) =>
        /\ PadDone => Inside(results["earthquake"].probability, Pc(70), Pc(95))
        /\ FutDone => \A i \in Days :
                          Inside(future_predictions[i].earthquake_risk,
                                 Pc(70) * 100, Pc(95) * 100)

C2_Witness ==
    /\ FutDone
    /\ Normal("earthquake")
    /\ seismic_intensity = 4
    /\ Raw("earthquake") = 0
    /\ Len(future_predictions) = MaxDays
    /\ \A i \in Days : future_predictions[i].earthquake_risk = Pc(70) * 100

\* C3: every reported probability is in [0, 1], for every hazard and
\* geo-context, when the classifier returns and when it raises.
C3_UnitInterval ==
    /\ PadDone => \A h \in DOMAIN results :
                      Inside(results[h].probability, 0, One)
    /\ FutDone => \A i \in Days :
                      /\ Inside(future_predictions[i].flood_risk, 0, One * 100)
                      /\ Inside(future_predictions[i].cyclone_risk, 0, One * 100)
                      /\ Inside(future_predictions[i].fire_risk, 0, One * 100)
                      /\ Inside(future_predictions[i].earthquake_risk, 0, One * 100)

C3_Witness ==
    /\ PadDone
    /\ models = Hazards
    /\ clf["earthquake"].fails
    /\ clf["flood"].fails
    /\ Normal("fire") /\ Raw("fire") = One
    /\ Normal("cyclone") /\ Raw("cyclone") = One
    /\ seismic_intensity = 4
    /\ results["earthquake"].probability = Pc(85)

\* clamp(x, lo, hi) as the calibration table writes it
SpecClamp(x, lo, hi) == Max(Min(x, hi), lo)

\* the earthquake rows of the calibration table for tiers 0 to 3
EarthquakeTable(t, p) ==
    CASE t = 0 -> Min(Times(p, 5), Pc(10))
      [] t = 1 -> Min(Times(p, 30), Pc(25))
      [] t = 2 -> SpecClamp(Times(p, 50), Pc(25), Pc(50))
      [] t = 3 -> SpecClamp(Times(p, 80), Pc(50), Pc(75))

\* C4: at seismic tiers 0 to 3 the calibrated earthquake probability is the
\* table's value: scale first, then min (tiers 0, 1) or clamp (tiers 2, 3),
\* with clamp(x, lo, hi) = max(min(x, hi), lo).
C4_EarthquakeTable ==
    (Normal("earthquake") /\ seismic_intensity \in 0..3) =>
        /\ PadDone => results["earthquake"].probability =
                          EarthquakeTable(seismic_intensity, Raw("earthquake"))
        /\ FutDone => \A i \in Days :
                          future_predictions[i].earthquake_risk =
                              EarthquakeTable(seismic_intensity, Raw("earthquake")) * 100

C4_Witness ==
    /\ PadDone
    /\ Normal("earthquake")
    /\ seismic_intensity = 2
    /\ Raw("earthquake") = One
    /\ results["earthquake"].probability = Pc(50)

\* C5: the fire probability is min(p * 0.15, 0.20) at forest tier 0 and
\* p * 0.6 at forest tier 1, in both functions.
C5_FireTable ==
    (Normal("fire") /\ get_forest_coverage(lat, lon) \in {0, 1}) =>
        LET p == Raw("fire")
            want == IF get_forest_coverage(lat, lon) = 0
                    THEN Min(Times(p, 15), Pc(20)) ELSE Times(p, 60)
        IN  /\ PadDone => results["fire"].probability = want
            /\ FutDone => \A i \in Days :
                              future_predictions[i].fire_risk = want * 100

C5_Witness ==
    /\ FutDone
    /\ Normal("fire")
    /\ get_forest_coverage(lat, lon) = 1
    /\ Raw("fire") = One
    /\ Len(future_predictions) >= 1
    /\ future_predictions[1].fire_risk = Pc(60) * 100

\* the probability reported for hazard h is p in the finished call
Reports(h, p) ==
    /\ PadDone => results[h].probability = p
    /\ FutDone => \A i \in Days :
                      future_predictions[i][h \o "_risk"] = p * 100

\* C6: where no rule applies the raw probability passes through: flood
\* always, cyclone at a coastal coordinate, fire at forest tier 2 or 3.
C6_PassThrough ==
    /\ Normal("flood") => Reports("flood", Raw("flood"))
    /\ (Normal("cyclone") /\ is_coastal_location(lat, lon)) =>
           Reports("cyclone", Raw("cyclone"))
    /\ (Normal("fire") /\ get_forest_coverage(lat, lon) \in {2, 3}) =>
           Reports("fire", Raw("fire"))

C6_Witness ==
    /\ PadDone
    /\ Normal("fire")
    /\ get_forest_coverage(lat, lon) = 2
    /\ Raw("fire") = One
    /\ results["fire"].probability = One

\* C7: at Kathmandu the tier used for calibration is 4 on every run, so the
\* calibrated earthquake probability is in [0.70, 0.95] for every raw
\* probability and every value of the magnitude jitter.
C7_KathmanduTier4 ==
    (lat = Kathmandu[1] /\ lon = Kathmandu[2] /\ (PadDone \/ FutDone)) =>
        /\ seismic_intensity = 4
        /\ Normal("earthquake") =>
               /\ PadDone => Inside(results["earthquake"].probability,
                                    Pc(70), Pc(95))
               /\ FutDone => \A i \in Days :
                                 Inside(future_predictions[i].earthquake_risk,
                                        Pc(70) * 100, Pc(95) * 100)

\* the calibration band of a seismic tier
BandLo(t) ==
    CASE t = 0 -> 0 [] t = 1 -> 0 [] t = 2 -> Pc(25) [] t = 3 -> Pc(50)
      [] t = 4 -> Pc(70)

BandHi(t) ==
    CASE t = 0 -> Pc(10) [] t = 1 -> Pc(25) [] t = 2 -> Pc(50) [] t = 3 -> Pc(75)
      [] t = 4 -> Pc(95)

\* C8: at Delhi is_coastal_location is false, get_forest_coverage is 0 and
\* the calibrated earthquake probability is in the band of the tier of the
\* zone Delhi falls in, on every run and for every classifier output.
C8_DelhiBand ==
    (lat = Delhi[1] /\ lon = Delhi[2] /\ PadDone) =>
        LET t == seismic_zone(lat, lon).seismic_intensity
        IN  /\ ~is_coastal
            /\ forest_level = 0
            /\ Normal("earthquake") =>
                   Inside(results["earthquake"].probability, BandLo(t), BandHi(t))

\* C9: at (-10, -60) get_forest_coverage is 3 and is_coastal_location is
\* false, so the fire probability is not reduced and the cyclone probability
\* is at most 0.15.
C9_AmazonScenario ==
    (lat = AmazonEdge[1] /\ lon = AmazonEdge[2] /\ PadDone) =>
        /\ forest_level = 3
        /\ ~is_coastal
        /\ Normal("fire") => results["fire"].probability = Raw("fire")
        /\ Normal("cyclone") => results["cyclone"].probability <= Pc(15)

\* C10: two runs of predict_future_for_location for the same coordinate use
\* the same coastal flag, forest tier and seismic tier.
C10_ForecastDeterminism ==
    [][(FutDone /\ predict_future_for_location) =>
           /\ is_coastal' = is_coastal
           /\ forest_level' = forest_level
           /\ seismic_intensity' = seismic_intensity]_vars

ContextDone == op = "get_location_context"

\* the coordinate is strictly inside box b
InBox(b) ==
    /\ b[1] * 1000 < lat /\ lat < b[2] * 1000
    /\ b[3] * 1000 < lon /\ lon < b[4] * 1000

\* C11: is_coastal_location is false strictly inside any inland box and true
\* outside all of them, edges included; its value is always a boolean.
C11_CoastalBoxes ==
    ContextDone =>
        /\ is_coastal \in BOOLEAN
        /\ is_coastal = ~ \E b \in InlandBoxes : InBox(b)

\* on the southern edge of the first inland box, reported coastal
C11_Witness ==
    /\ ContextDone
    /\ lat = 200 * 1000
    /\ 750 * 1000 < lon /\ lon < 820 * 1000
    /\ is_coastal

\* C12: get_forest_coverage is in 0..3, is 0 inside every urban or desert
\* box, whatever other box holds the coordinate, and 1 where no box does.
C12_ForestTiers ==
    ContextDone =>
        /\ forest_level \in 0 .. 3
        /\ (\E b \in UrbanDesertBoxes : InBox(b)) => forest_level = 0
        /\ (~ \E b \in UrbanDesertBoxes \cup HighCoverageBoxes
                     \cup ModerateCoverageBoxes : InBox(b)) => forest_level = 1

C12_Witness ==
    /\ ContextDone
    /\ \E z \in urban_zones : InBox(z)
    /\ forest_level = 0

\* the rules of the cascade whose box holds the coordinate
ZoneHits == { i \in 1 .. Len(ZoneBoxes) : InBox(ZoneBoxes[i][1]) }

\* C13: the cascade gives the highest tier among the zone boxes that hold
\* the coordinate, with the name of the first listed box of that tier, and
\* tier 0 "Stable Craton" when no box holds it.
C13_HighestTier ==
    ContextDone =>
        IF ZoneHits = {}
        THEN zone = Zone(0, "Stable Craton")
        ELSE LET top == MaxOf({ ZoneBoxes[i][2] : i \in ZoneHits })
                 first == CHOOSE i \in ZoneHits :
                              /\ ZoneBoxes[i][2] = top
                              /\ \A j \in ZoneHits :
                                     ZoneBoxes[j][2] = top => i <= j
             IN  zone = Zone(top, ZoneBoxes[first][3])

\* inside the Nepal box and the tier 2 Eastern Himalayan Belt box
C13_Witness ==
    /\ ContextDone
    /\ { ZoneBoxes[i][3] : i \in ZoneHits } =
           { "Nepal Himalayan Collision Zone", "Eastern Himalayan Belt" }
    /\ zone.seismic_intensity = 4

\* C14: the feature vector has one entry per schema name, in schema order;
\* entry i is the mapping's value for the i-th name, or 0 when the mapping
\* lacks it; names of the mapping outside the schema add nothing.
C14_InputVector ==
    op = "input_array" =>
        /\ Len(X) = Len(dtype_features)
        /\ \A i \in 1 .. Len(dtype_features) :
               \/ dtype_features[i] \in DOMAIN params
                    /\ X[i] = params[dtype_features[i]]
               \/ dtype_features[i] \notin DOMAIN params /\ X[i] = 0

\* a schema name the mapping lacks and a mapping name the schema lacks
C14_Witness ==
    /\ op = "input_array"
    /\ dtype_features = <<"mag", "depth", "mag">>
    /\ DOMAIN params = {"mag", "latitude"}
    /\ X = <<2, 0, 2>>

\* the fallback table: hazard h at seismic tier t
FallbackTable(h, t) ==
    IF h = "earthquake"
    THEN CASE t = 0 -> Pc(5) [] t = 1 -> Pc(20) [] t = 2 -> Pc(40)
           [] t = 3 -> Pc(65) [] t = 4 -> Pc(85)
    ELSE Pc(30)

\* C15: when the classifier of a hazard raises, the call still returns: the
\* hazard gets the fallback of the table (earthquake by the seismic tier,
\* 0.3 for the others), predict_all_disasters reports class 0 for it, and
\* every other loaded hazard is reported too.
C15_Fallback ==
    /\ PadDone => DOMAIN results = models
    /\ FutDone => Len(future_predictions) = Max(days, 0)
    /\ \A h \in models :
           clf[h].fails =>
               /\ PadDone => results[h].prediction = 0
               /\ Reports(h, FallbackTable(h, seismic_intensity))

\* the earthquake classifier raises at tier 3, the flood classifier returns
C15_Witness ==
    /\ PadDone
    /\ models = Hazards
    /\ clf["earthquake"].fails
    /\ seismic_intensity = 3
    /\ results["earthquake"].prediction = 0
    /\ results["earthquake"].probability = Pc(65)
    /\ Normal("flood")
    /\ results["flood"].probability = One

\* C16: a hazard whose classifier is missing is left out of the results of
\* predict_all_disasters and out of every forecast record, and the values
\* of the loaded hazards are those their own classifiers give.
C16_MissingOmitted ==
    /\ PadDone =>
           /\ DOMAIN results = models
           /\ \A h \in models :
                  results[h] =
                      PadEntry(h, clf[h], is_coastal, forest_level,
                               seismic_intensity, results[h].params)
    /\ FutDone =>
           \A i \in Days :
               /\ \A h \in Hazards \ models :
                      (h \o "_risk") \notin DOMAIN future_predictions[i]
               /\ \A h \in models :
                      future_predictions[i][h \o "_risk"] =
                          DayRisk(h, clf[h], is_coastal, forest_level,
                                  seismic_intensity) * 100

\* the four risks that forecast record r reports
ReportedRisks(r) ==
    {r.flood_risk, r.cyclone_risk, r.fire_risk, r.earthquake_risk}

\* C17: in every forecast record max_risk is the largest of the record's
\* flood, cyclone, fire and earthquake risks, whatever classifiers are
\* loaded, none at all included.
C17_MaxOfReported ==
    FutDone =>
        \A i \in Days :
            future_predictions[i].max_risk =
                MaxOf(ReportedRisks(future_predictions[i]))

\* C18: a day is "High" exactly when its maximum probability is above 0.6,
\* "Medium" exactly when it is above 0.3 and at most 0.6, "Low" otherwise;
\* exactly 0.6 is "Medium" and exactly 0.3 is "Low".
C18_RiskLevel ==
    FutDone =>
        \A i \in Days :
            LET m == future_predictions[i].max_risk
                level == future_predictions[i].risk_level
            IN  /\ level \in {"High", "Medium", "Low"}
                /\ level = "High" <=> m > Pc(60) * 100
                /\ level = "Medium" <=> (m > Pc(30) * 100 /\ m <= Pc(60) * 100)
                /\ level = "Low" <=> m <= Pc(30) * 100

\* a day whose maximum is exactly 0.6: raw fire probability 1.0 at tier 1
C18_Witness ==
    /\ FutDone
    /\ days >= 1
    /\ models = {"fire"}
    /\ Normal("fire")
    /\ future_predictions[1].max_risk = Pc(60) * 100
    /\ future_predictions[1].risk_level = "Medium"

\* the days of the months before month m in a year that is not a leap
\* year; month 13 stands for the end of the year
DaysBeforeMonth(m) ==
    <<0, 31, 59, 90, 120, 151, 181, 212, 243, 273, 304, 334, 365>>[m]

LeapYear(y) == (y % 4 = 0 /\ y % 100 # 0) \/ y % 400 = 0

\* d names a day of the calendar
ValidDate(d) ==
    /\ d[2] \in 1 .. 12
    /\ d[3] >= 1
    /\ d[3] <= IF d[2] = 2 /\ LeapYear(d[1]) THEN 29
               ELSE DaysBeforeMonth(d[2] + 1) - DaysBeforeMonth(d[2])

\* the number of the day d, counting 0001-01-01 as day 1
Ordinal(d) ==
    LET y == d[1] - 1
    IN  365 * y + (y \div 4) - (y \div 100) + (y \div 400)
            + DaysBeforeMonth(d[2])
            + (IF d[2] > 2 /\ LeapYear(d[1]) THEN 1 ELSE 0)
            + d[3]

\* C19: a call with days = D returns exactly D records, none when D <= 0;
\* record i is dated i days after today, so the records are in increasing
\* date order, the first is tomorrow and neighbours are one day apart.
C19_ForecastDates ==
    FutDone =>
        /\ Len(future_predictions) = (IF days <= 0 THEN 0 ELSE days)
        /\ \A i \in Days :
               /\ ValidDate(future_predictions[i].date)
               /\ Ordinal(future_predictions[i].date) = Ordinal(today) + i
        /\ \A i \in Days \ {1} :
               Ordinal(future_predictions[i].date) =
                   Ordinal(future_predictions[i - 1].date) + 1

\* two records across the leap day of 2024
C19_Witness ==
    /\ FutDone
    /\ days = 2
    /\ today = <<2024, 2, 28>>
    /\ future_predictions[1].date = <<2024, 2, 29>>
    /\ future_predictions[2].date = <<2024, 3, 1>>

\* the generator as it is when the first call starts
FreshRng == [rng EXCEPT !.pos = 0]

\* eq_test['mag'] and eq_params['mag'] of a call that runs alone
AloneTestMag == mag_at(lat, lon, Sample(FreshRng, 1))

AloneMag == mag_at(lat, lon, Sample(FreshRng, 3))

\* C20: calls share no mutable state, so a call gives the result it gives
\* when it runs alone, whatever calls ran before it.
C20_CallsIndependent ==
    /\ PadDone =>
           /\ seismic_intensity = PadSeismicIntensity(AloneTestMag)
           /\ results =
                  [h \in models |->
                     PadEntry(h, clf[h], is_coastal, forest_level,
                              PadSeismicIntensity(AloneTestMag),
                              [mag |-> AloneMag])]
    /\ FutDone =>
           /\ seismic_intensity = FutSeismicIntensity(AloneTestMag)
           /\ future_predictions =
                  [i \in 1 .. days |->
                     ForecastRow(future_date(today, i),
                                 day_risks(models, clf, is_coastal,
                                           forest_level,
                                           FutSeismicIntensity(AloneTestMag)))]

\* the anchor magnitude of tier t: 1.5, 2.5, 3.5, 4.5, 5.5
Anchor(t) == Mag(3) + t * Mag(2)

FloodDone == op = "estimate_flood_risk_from_location"

CycloneDone == op = "estimate_cyclone_risk_from_location"

FireDone == op = "estimate_fire_risk_from_location"

\* the off-season monsoon intensity of the region of the coordinate
OffSeasonMonsoon ==
    IF InBox(<<80, 350, 680, 970>>) THEN 4
    ELSE IF InBox(<<-100, 250, 950, 1250>>) THEN 5
    ELSE IF -250000 < lat /\ lat < 250000 THEN 4
    ELSE 3

\* C22: with a month outside 1..12 the three synthesizers return and take
\* their default seasonal branch: off-season monsoon intensity, no
\* cyclone-season temperature or pressure adjustment, neither summer nor
\* winter in the fire synthesizer.
C22_MonthOutOfRange ==
    month \notin 1 .. 12 =>
        /\ FloodDone => params.MonsoonIntensity = OffSeasonMonsoon
        /\ (CycloneDone /\ "base_temp" \in DOMAIN params) =>
               /\ params.base_temp \in {270, 285, 220}
               /\ params.Atmospheric_Pressure = 1010
        /\ (FireDone /\ "is_summer" \in DOMAIN params) =>
               /\ ~params.is_summer
               /\ params.humidity = 60
               /\ params.base_temp \in {27, 18, 8}

\* month 13 at a coastal coordinate of the cyclone belt
C22_Witness ==
    /\ CycloneDone
    /\ month = 13
    /\ lat = 190760
    /\ params.base_temp = 285
    /\ params.Atmospheric_Pressure = 1010

\* a forested coordinate of each hemisphere
NorthPoint == <<500000, 120000>>

SouthPoint == <<-50000, -600000>>

\* the mapping returned for month m at the point of the other hemisphere
AcrossEquator(m) ==
    IF lat > 0
    THEN estimate_fire_risk_from_location(SouthPoint[1], SouthPoint[2], m)
    ELSE estimate_fire_risk_from_location(NorthPoint[1], NorthPoint[2], m)

\* the mapping f, returned at latitude la, got the winter adjustment
WinterAdjusted(f, la) == f.base_temp = latitude_temp(la) - 10

\* C23: at forest tier >= 1 the summer flag is set exactly when lat > 0 and
\* the month is in 5..8, or lat < 0 and the month is 11, 12, 1 or 2; no
\* month is summer in both hemispheres, no call gets both adjustments, and
\* the summer months of one hemisphere are exactly the winter months of the
\* other.
C23_Hemispheres ==
    (FireDone /\ "is_summer" \in DOMAIN params /\ lat # 0
        /\ month \in 1 .. 12) =>
        LET other == AcrossEquator(month)
            otherLat == IF lat > 0 THEN SouthPoint[1] ELSE NorthPoint[1]
        IN  /\ params.is_summer <=>
                   \/ lat > 0 /\ month \in {5, 6, 7, 8}
                   \/ lat < 0 /\ month \in {11, 12, 1, 2}
            /\ ~(params.is_summer /\ other.is_summer)
            /\ ~(params.is_summer /\ WinterAdjusted(params, lat))
            /\ params.is_summer <=> WinterAdjusted(other, otherLat)

\* the tier that magnitude m thresholds to
ThresholdTier(m) ==
    IF m > Mag(10) THEN 4
    ELSE IF m > Mag(8) THEN 3
    ELSE IF m > Mag(6) THEN 2
    ELSE IF m > Mag(4) THEN 1
    ELSE 0

\* C24: the seismic tier that the two functions use for calibration equals
\* the tier of the zone box the coordinate falls in, for every coordinate
\* and every jitter value.
C24_TierIsZoneTier ==
    (PadDone \/ FutDone) =>
        seismic_intensity = seismic_zone(lat, lon).seismic_intensity

\* C25: the 'mag' of the earthquake entry of predict_all_disasters
\* thresholds to the tier that calibrated the entry's probability.
C25_ParamsMatchTier ==
    (PadDone /\ "earthquake" \in models) =>
        ThresholdTier(results["earthquake"].params.mag) = seismic_intensity

\* every probability reported for hazard h in the finished call is in
\* [lo, hi]
ReportsWithin(h, lo, hi) ==
    /\ PadDone => Inside(results[h].probability, lo, hi)
    /\ FutDone => \A i \in Days :
                      Inside(future_predictions[i][h \o "_risk"],
                             lo * 100, hi * 100)

\* the classifier of h is loaded and its calls raise
Failing(h) == h \in models /\ clf[h].fails

\* C26: when the classifier raises, the fallback probability respects the
\* geo-context bound of its hazard: at most 0.15 for cyclone inland, at
\* most 0.20 for fire at forest tier 0, inside the band of the tier for
\* earthquake.
C26_FallbackInBounds ==
    /\ (Failing("cyclone") /\ ~is_coastal_location(lat, lon)) =>
           ReportsWithin("cyclone", 0, Pc(15))
    /\ (Failing("fire") /\ get_forest_coverage(lat, lon) = 0) =>
           ReportsWithin("fire", 0, Pc(20))
    /\ Failing("earthquake") =>
           ReportsWithin("earthquake", BandLo(seismic_intensity),
                         BandHi(seismic_intensity))

\* C27: for the same hazard, coastal flag, forest tier, seismic tier and
\* classifier behaviour (a raw probability or a failure) the forecast
\* reports the probability that predict_all_disasters reports.
C27_SameCalibration ==
    \A h \in models :
        /\ PadDone =>
               results[h].probability =
                   DayRisk(h, clf[h], is_coastal, forest_level,
                           seismic_intensity)
        /\ FutDone =>
               \A i \in Days :
                   future_predictions[i][h \o "_risk"] =
                       PadEntry(h, clf[h], is_coastal, forest_level,
                                seismic_intensity, NoParams).probability * 100

\* a forecast day at an inland coordinate, raw cyclone probability 1.0
C27_Witness ==
    /\ FutDone
    /\ days >= 1
    /\ ~is_coastal
    /\ Normal("cyclone") /\ Raw("cyclone") = One
    /\ future_predictions[1].cyclone_risk = Pc(10) * 100

\* raw probabilities in steps of 0.025
FineGrid == Grid(4 * EqProbSteps)

\* C28: the calibrated earthquake probability is non-decreasing in the raw
\* probability at a fixed tier and non-decreasing in the tier, 0 to 4, at a
\* fixed raw probability of [0, 1].
C28_Monotone ==
    (Normal("earthquake") /\ PadDone) =>
        LET p == Raw("earthquake")
            t == seismic_intensity
            reported == results["earthquake"].probability
        IN  /\ \A q \in FineGrid :
                   /\ q >= p => PadEarthquake(q, t) >= reported
                   /\ q <= p => PadEarthquake(q, t) <= reported
            /\ \A u \in 0 .. 4 :
                   /\ u >= t => PadEarthquake(p, u) >= reported
                   /\ u <= t => PadEarthquake(p, u) <= reported
            /\ \A q \in FineGrid, u \in 0 .. 3 :
                   /\ PadEarthquake(q, u) <= PadEarthquake(q, u + 1)
                   /\ FutEarthquake(q, u) <= FutEarthquake(q, u + 1)
                   /\ FutEarthquake(q, t) >= FutEarthquake(p, t) \/ q < p

\* tier 3, raw probability 1.0: the ceiling 0.75, below tier 4's 0.95
C28_Witness ==
    /\ PadDone
    /\ Normal("earthquake") /\ Raw("earthquake") = One
    /\ seismic_intensity = 3
    /\ results["earthquake"].probability = Pc(75)
    /\ PadEarthquake(One, 4) = Pc(95)

\* the mappings the synthesizer of hazard h can return in the finished
\* call of predict_all_disasters
SynthesizedMappings(h) ==
    IF h = "flood"
    THEN { estimate_flood_risk_from_location(lat, lon, today[2]) }
    ELSE IF h = "cyclone"
    THEN estimate_cyclone_risk_from_location(lat, lon, today[2])
    ELSE IF h = "fire"
    THEN { estimate_fire_risk_from_location(lat, lon, today[2]) }
    ELSE { [mag |-> m] : m \in estimate_earthquake_risk_from_location(lat, lon) }

\* C29: on the normal path every entry of predict_all_disasters carries
\* the class the classifier's predict returned and the mapping the
\* synthesizer returned, whatever rule changed the probability.
C29_OnlyProbabilityChanges ==
    PadDone =>
        \A h \in models :
            /\ results[h].params \in SynthesizedMappings(h)
            /\ ~clf[h].fails => results[h].prediction = predict(clf[h])

\* class 1 reported with probability 0.10 at an inland coordinate
C29_Witness ==
    /\ PadDone
    /\ ~is_coastal
    /\ Normal("cyclone") /\ Raw("cyclone") = One
    /\ results["cyclone"].prediction = 1
    /\ results["cyclone"].probability = Pc(10)
    /\ results["cyclone"].params.Atmospheric_Pressure = 1013

\* C30: for a raw probability p of [0, 1] the caps of the shrink rules
\* never bind: inland cyclone is 0.1 p <= 0.10, fire at forest tier 0 is
\* 0.15 p <= 0.15, earthquake at seismic tier 0 is 0.05 p <= 0.05.
C30_CapsNeverBind ==
    PadDone =>
        /\ (Normal("cyclone") /\ ~is_coastal) =>
               /\ results["cyclone"].probability = Times(Raw("cyclone"), 10)
               /\ results["cyclone"].probability <= Pc(10)
        /\ (Normal("fire") /\ forest_level = 0) =>
               /\ results["fire"].probability = Times(Raw("fire"), 15)
               /\ results["fire"].probability <= Pc(15)
        /\ (Normal("earthquake") /\ seismic_intensity = 0) =>
               /\ results["earthquake"].probability =
                      Times(Raw("earthquake"), 5)
               /\ results["earthquake"].probability <= Pc(5)

\* raw fire probability 1.0 at forest tier 0: 0.15, under the cap 0.20
C30_Witness ==
    /\ PadDone
    /\ forest_level = 0
    /\ Normal("fire") /\ Raw("fire") = One
    /\ results["fire"].probability = Pc(15)

====
